---- MODULE Spec2Model ----
(***************************************************************************)
(* The signup-reward state transition of the UR chain (go-ur).             *)
(*                                                                         *)
(* The simulated backend of core/state_processor_test.go drives the chain: *)
(* AddPendingTx queues a transaction, Commit seals a block from the queue, *)
(* signMember does both for one referral signup.  The reward hook itself   *)
(* (core.ScaledRewards, core.GetFactor, core.CalculateTxManagementFee and  *)
(* the per-transaction credits) is called by those tests; it is modelled   *)
(* from the expectations the tests compute and from the specification.     *)
(*                                                                         *)
(* Amounts are big.Int wei.  A wei amount is kept here as two limbs,       *)
(* hi * 10^14 + wei, with the low limb small in absolute value: rewards    *)
(* are whole multiples of 10^14 wei and transaction values are a few wei,  *)
(* so no carry between the limbs happens and limb-wise arithmetic is the   *)
(* big.Int arithmetic.                                                     *)
(***************************************************************************)
EXTENDS Integers, Sequences, FiniteSets, TLC

\* ------------------------------------------------------------- bounds

\* blocks sealed on top of genesis
MaxBlocks == 9
\* queued transactions with freely chosen fields, plus empty blocks
MaxFree == 1
\* blocks generated on top of the testing genesis
MaxGenerated == 3
\* blocks sealed on top of genesis in the short chains
MaxShort == 4

\* ------------------------------------------------------------ amounts

Amt(h, w) == [hi |-> h, wei |-> w]

ZeroAmt == Amt(0, 0)

\* common.Ether, in units of 10^14 wei (the high limb)
Ether == 10000

UR(n) == Amt(n * Ether, 0)

\* hundredths of a UR
CentiUR(n) == Amt(n * (Ether \div 100), 0)

Wei(n) == Amt(0, n)

AddAmt(a, b) == Amt(a.hi + b.hi, a.wei + b.wei)

SubAmt(a, b) == Amt(a.hi - b.hi, a.wei - b.wei)

MulAmt(a, n) == Amt(a.hi * n, a.wei * n)

\* a <= b (big.Int Cmp <= 0)
LeqAmt(a, b) == a.hi < b.hi \/ (a.hi = b.hi /\ a.wei <= b.wei)

RECURSIVE SumAmts(_)
SumAmts(s) == IF s = <<>> THEN ZeroAmt ELSE AddAmt(Head(s), SumAmts(Tail(s)))

\* ---------------------------------------------------------- addresses

privKeyAddr == 1
ReceiverAddr == 2
URFFAddr == 3
minerAddr == 4

\* addresses of freshly generated keys (newKeyAddr, newMember)
NewAddrs == 5..(5 + MaxBlocks + MaxFree)

\* common.Address{0x00}, the coinbase of the generated blocks
ZeroAddress == 0

\* the key setupPrivilegedAddress generates
privAddress == 6 + MaxBlocks + MaxFree

Addresses ==
    {ZeroAddress, privKeyAddr, ReceiverAddr, URFFAddr, minerAddr, privAddress}
        \cup NewAddrs

\* the list setupPrivilegedAddress appends its key to: the senders whose
\* plain transfers are paid a bonus
PrivilegedAddresses == {privAddress}

\* the receiver pair of every sender that can sign members up
PrivilegedAddressesReceivers ==
    [a \in {privKeyAddr} |-> [Receiver |-> ReceiverAddr, URFF |-> URFFAddr]]

\* ------------------------------------------------------------ rewards

\* core.BlockReward: 7 UR to the coinbase for a block
BlockReward == UR(7)

\* core.Big10k: 10000 UR
Big10k == UR(10000)

\* number of ancestors a signup can pay
MaxAncestors == 7

FullRatio == "Full"
HalfRatio == "Half"
QuarterRatio == "Quarter"

Ratios == {FullRatio, HalfRatio, QuarterRatio}

\* divisor of a ratio
RatioDivisor(r) == CASE r = FullRatio -> 1 [] r = HalfRatio -> 2 [] r = QuarterRatio -> 4

\* the table with the ratios of its two entries exchanged
ReductionFactorsSwapped ==
    << [NSignups |-> 4, Ratio |-> HalfRatio],
       [NSignups |-> 2, Ratio |-> QuarterRatio] >>

\* thresholds in descending order, as TestRewardsScaling scales them down
ReductionFactors ==
    << [NSignups |-> 4, Ratio |-> QuarterRatio],
       [NSignups |-> 2, Ratio |-> HalfRatio] >>

\* the ratio of the first entry whose threshold is <= nSignups, else Full
FirstRatio(hit) ==
    IF hit = {} THEN FullRatio
    ELSE ReductionFactors[CHOOSE i \in hit : \A j \in hit : i <= j].Ratio

GetFactor(nSignups) ==
    FirstRatio({i \in 1..Len(ReductionFactors) : ReductionFactors[i].NSignups <= nSignups})

\* the base schedule, at Full ratio
BaseSignupReward == UR(2000)
BaseURFutureFundFee == UR(5000)
BaseManagementFee == UR(1000)
BaseMembersSignupRewards ==
    << CentiUR(78791), CentiUR(48484), CentiUR(30303), CentiUR(18181),
       CentiUR(12121), CentiUR(6060), CentiUR(6060) >>

\* base amount x ratio (big.Int Div truncates; both limbs are non-negative)
ScaleAmt(a, r) == Amt(a.hi \div RatioDivisor(r), a.wei \div RatioDivisor(r))

\* the set with the sum of the ancestor amounts cached from the base table
RewardSetBaseSum(r) ==
    LET members == [k \in 1..MaxAncestors |-> ScaleAmt(BaseMembersSignupRewards[k], r)]
        totalSignup == SumAmts(BaseMembersSignupRewards)
        signup == ScaleAmt(BaseSignupReward, r)
        urff == ScaleAmt(BaseURFutureFundFee, r)
    IN  [SignupReward |-> signup,
         MembersSignupRewards |-> members,
         TotalSignupRewards |-> totalSignup,
         ManagementFee |-> ScaleAmt(BaseManagementFee, r),
         URFutureFundFee |-> urff,
         MinerReward |-> BlockReward,
         Total |-> AddAmt(AddAmt(signup, totalSignup), AddAmt(urff, BlockReward))]

RewardSet(r) ==
    LET members == [k \in 1..MaxAncestors |-> ScaleAmt(BaseMembersSignupRewards[k], r)]
        totalSignup == SumAmts(members)
        signup == ScaleAmt(BaseSignupReward, r)
        urff == ScaleAmt(BaseURFutureFundFee, r)
    IN  [SignupReward |-> signup,
         MembersSignupRewards |-> members,
         TotalSignupRewards |-> totalSignup,
         ManagementFee |-> ScaleAmt(BaseManagementFee, r),
         URFutureFundFee |-> urff,
         MinerReward |-> BlockReward,
         Total |-> AddAmt(AddAmt(signup, totalSignup), AddAmt(urff, BlockReward))]

\* core.ScaledRewards: one RewardSet per ratio, computed once
ScaledRewards == [r \in Ratios |-> RewardSet(r)]

\* big.Int Div by a small positive n, limb by limb: the high limb's
\* remainder r carries r * 10^14 wei into the low limb, whose quotient is
\* kept as the flag "low", TRUE when that quotient is zero
DivAmt(a, n) == [hi |-> a.hi \div n, low |-> a.hi % n = 0 /\ a.wei < n]

\* the predicate without its nSignups == 0 case: no fee on an empty history
ManagementFeeDueNoFirst(nSignups, totalWei) ==
    /\ nSignups > 0
    /\ LET q == DivAmt(totalWei, nSignups)
       IN  q.hi < Big10k.hi \/ (q.hi = Big10k.hi /\ q.low)

\* nSignups == 0 || totalWei / nSignups <= Big10k
ManagementFeeDue(nSignups, totalWei) ==
    \/ nSignups = 0
    \/ LET q == DivAmt(totalWei, nSignups)
       IN  q.hi < Big10k.hi \/ (q.hi = Big10k.hi /\ q.low)

\* core.CalculateTxManagementFee: the fee a signup pays on these counters
CalculateTxManagementFee(nSignups, totalWei) ==
    IF ManagementFeeDue(nSignups, totalWei)
    THEN ScaledRewards[GetFactor(nSignups)].ManagementFee
    ELSE ZeroAmt

\* ------------------------------------------------------------ payload

\* binary.BigEndian.PutUint64, for block numbers below 2^24
PutUint64(n) ==
    << 0, 0, 0, 0, 0, (n \div 65536) % 256, (n \div 256) % 256, n % 256 >>

\* above every block number of a chain: stands for any value >= 2^24
BeyondChain == 16777216

\* binary.BigEndian.Uint64 of 8 bytes
Uint64(bs) ==
    IF \E i \in 1..5 : bs[i] # 0 THEN BeyondChain
    ELSE bs[6] * 65536 + bs[7] * 256 + bs[8]

\* the 32 bytes of a transaction hash; hashes are numbered as they are made
HashBytes(h) == [i \in 1..30 |-> 0] \o << (h \div 256) % 256, h % 256 >>

\* signMember's payload d
SignupData(fromPrivileged, block, txHash) ==
    IF fromPrivileged THEN << 1 >>
    ELSE << 1 >> \o PutUint64(block) \o HashBytes(txHash)

\* -------------------------------------------------------------- chain

\* chain: the blocks, genesis first; statedb: the balances at the head
\* (bchain.State()); parentdb: the balances at the head's parent; pending:
\* the simulator's queue; nextHash: the next transaction hash; free: the
\* freely chosen steps taken so far; credited: for each transaction of the
\* head block, the AddBalance calls of its rewards, in order; nodes: the
\* test's memberNode of every address signed up so far, oldest first;
\* blocks: the block last handed to InsertChain, none at first; dropped: the
\* transactions the last sealing refused
VARIABLES chain, statedb, parentdb, credited, pending, nextHash, free, nodes, blocks,
          dropped

vars ==
    << chain, statedb, parentdb, credited, pending, nextHash, free, nodes, blocks,
       dropped >>

NotSignup == "NotSignup"
PrivilegedSignup == "PrivilegedSignup"
MemberSignup == "MemberSignup"

\* sim.BlockChain.CurrentBlock()
CurrentBlock == chain[Len(chain)]

\* the included transactions of blocks 0..n of ch, oldest first
RECURSIVE Included(_, _)
Included(ch, n) == IF n = 0 THEN <<>> ELSE Included(ch, n - 1) \o ch[n].txs

AllIncluded(ch) == Included(ch, Len(ch))

\* addresses signed up by a transaction on ch
Members(ch) ==
    LET all == AllIncluded(ch)
    IN  {all[i].to : i \in {j \in 1..Len(all) : all[j].kind # NotSignup}}

\* resolveTx(blockNumber, txHash): the matching included transactions of
\* that block, none when the block or the transaction is missing
ResolveTx(ch, blockNumber, hashBytes) ==
    IF blockNumber + 1 > Len(ch) THEN <<>>
    ELSE LET txs == ch[blockNumber + 1].txs
             hit == {i \in 1..Len(txs) : HashBytes(txs[i].hash) = hashBytes}
         IN  IF hit = {} THEN <<>> ELSE << txs[CHOOSE i \in hit : TRUE] >>

\* the transaction a 41-byte payload points at
Referenced(ch, data) ==
    IF Len(data) # 41 THEN <<>>
    ELSE ResolveTx(ch, Uint64(SubSeq(data, 2, 9)), SubSeq(data, 10, 41))

\* every ancestor of a payload, to the root
RECURSIVE WholeSignupChain(_, _)
WholeSignupChain(ch, data) ==
    LET ref == Referenced(ch, data)
    IN  IF ref = <<>> THEN <<>>
        ELSE << ref[1].to >> \o WholeSignupChain(ch, ref[1].data)

\* the walk up from a payload ends at a pointer that does not resolve
RECURSIVE EndsUnresolved(_, _)
EndsUnresolved(ch, data) ==
    IF Len(data) # 41 THEN FALSE
    ELSE LET ref == Referenced(ch, data)
         IN  IF ref = <<>> THEN TRUE ELSE EndsUnresolved(ch, ref[1].data)

\* an unresolved pointer taken for a failure of the whole walk: no ancestor
GetSignupChainAllOrNothing(ch, data, depth) ==
    IF EndsUnresolved(ch, data) THEN <<>>
    ELSE LET whole == WholeSignupChain(ch, data)
         IN  IF Len(whole) <= MaxAncestors THEN whole
             ELSE SubSeq(whole, 1, MaxAncestors)

\* the chain cut to 7 at the wrong end: the oldest ancestors are kept
GetSignupChainOldest(ch, data, depth) ==
    LET whole == WholeSignupChain(ch, data)
    IN  IF Len(whole) <= MaxAncestors THEN whole
        ELSE SubSeq(whole, Len(whole) - MaxAncestors + 1, Len(whole))

\* the ancestors of a payload, nearest first: the recipient of the
\* referenced transaction, then that transaction's own ancestors; the walk
\* ends at depth 7, at a payload without pointer, at an unresolved pointer
RECURSIVE GetSignupChain(_, _, _)
GetSignupChain(ch, data, depth) ==
    IF depth = MaxAncestors THEN <<>>
    ELSE LET ref == Referenced(ch, data)
         IN  IF ref = <<>> THEN <<>>
             ELSE << ref[1].to >> \o GetSignupChain(ch, ref[1].data, depth + 1)

NoRoot == 0

\* the privileged sender at the root of a transaction's referral chain
RECURSIVE SignupRoot(_, _, _)
SignupRoot(ch, from, data) ==
    IF from \in DOMAIN PrivilegedAddressesReceivers THEN from
    ELSE LET ref == Referenced(ch, data)
         IN  IF ref = <<>> \/ ref[1].kind = NotSignup THEN NoRoot
             ELSE SignupRoot(ch, ref[1].from, ref[1].data)

\* the classifier that takes a 41-byte payload from registered members only
ClassifyMembersOnly(ch, tx) ==
    IF Len(tx.data) = 0 \/ tx.data[1] # 1 \/ tx.value = 0 THEN NotSignup
    ELSE IF tx.from \in DOMAIN PrivilegedAddressesReceivers /\ Len(tx.data) = 1
         THEN PrivilegedSignup
    ELSE IF /\ Len(tx.data) = 41
            /\ tx.from \in Members(ch) /\ SignupRoot(ch, tx.from, tx.data) # NoRoot
         THEN MemberSignup
    ELSE NotSignup

\* the classifier without the check of the payload's length
ClassifyAnyLength(ch, tx) ==
    IF Len(tx.data) = 0 \/ tx.data[1] # 1 \/ tx.value = 0 THEN NotSignup
    ELSE IF tx.from \in DOMAIN PrivilegedAddressesReceivers /\ Len(tx.data) # 41
         THEN PrivilegedSignup
    ELSE IF \/ tx.from \in DOMAIN PrivilegedAddressesReceivers
            \/ tx.from \in Members(ch) /\ SignupRoot(ch, tx.from, tx.data) # NoRoot
         THEN MemberSignup
    ELSE NotSignup

\* the classifier that signs an address up once: a signup-shaped
\* transaction to a member is a transfer
ClassifyOncePerAddress(ch, tx) ==
    IF Len(tx.data) = 0 \/ tx.data[1] # 1 \/ tx.value = 0 THEN NotSignup
    ELSE IF tx.to \in Members(ch) THEN NotSignup
    ELSE IF tx.from \in DOMAIN PrivilegedAddressesReceivers /\ Len(tx.data) = 1
         THEN PrivilegedSignup
    ELSE IF /\ Len(tx.data) = 41
            /\ \/ tx.from \in DOMAIN PrivilegedAddressesReceivers
               \/ tx.from \in Members(ch) /\ SignupRoot(ch, tx.from, tx.data) # NoRoot
         THEN MemberSignup
    ELSE NotSignup

\* the signup classifier
Classify(ch, tx) ==
    IF Len(tx.data) = 0 \/ tx.data[1] # 1 \/ tx.value = 0 THEN NotSignup
    ELSE IF tx.from \in DOMAIN PrivilegedAddressesReceivers /\ Len(tx.data) = 1
         THEN PrivilegedSignup
    ELSE IF /\ Len(tx.data) = 41
            /\ \/ tx.from \in DOMAIN PrivilegedAddressesReceivers
               \/ tx.from \in Members(ch) /\ SignupRoot(ch, tx.from, tx.data) # NoRoot
         THEN MemberSignup
    ELSE NotSignup

\* ---------------------------------------------------- state transition

\* state.AddBalance
AddBalance(st, addr, amount) == [st EXCEPT ![addr] = AddAmt(@, amount)]

Credit(addr, amount, role) == [to |-> addr, amount |-> amount, role |-> role]

RECURSIVE ApplyCredits(_, _)
ApplyCredits(st, credits) ==
    IF credits = <<>> THEN st
    ELSE ApplyCredits(AddBalance(st, Head(credits).to, Head(credits).amount), Tail(credits))

\* no ancestor paid at all
AncestorCreditsNone(rewards, ancestors) == <<>>

\* the tiers handed out from the far end: the oldest ancestor paid first
AncestorCreditsReversed(rewards, ancestors) ==
    [k \in 1..Len(ancestors) |->
        Credit(ancestors[k], rewards.MembersSignupRewards[Len(ancestors) + 1 - k],
               "ancestor")]

\* ancestor k, nearest first, is paid MembersSignupRewards[k]
AncestorCredits(rewards, ancestors) ==
    [k \in 1..Len(ancestors) |->
        Credit(ancestors[k], rewards.MembersSignupRewards[k], "ancestor")]

\* the remainder credited only when some ancestor was paid
RemainderCreditsSkipEmpty(rewards, entry, paid) ==
    IF paid = <<>> THEN <<>>
    ELSE << Credit(entry.Receiver,
                   SubAmt(rewards.TotalSignupRewards,
                          SumAmts([k \in 1..Len(paid) |-> paid[k].amount])),
                   "remainder") >>

\* the receiver handed the whole of TotalSignupRewards, ancestors or not
RemainderCreditsWhole(rewards, entry, paid) ==
    << Credit(entry.Receiver, rewards.TotalSignupRewards, "remainder") >>

\* what is left of TotalSignupRewards after the ancestors goes to the receiver
RemainderCredits(rewards, entry, paid) ==
    LET rem == SubAmt(rewards.TotalSignupRewards,
                      SumAmts([k \in 1..Len(paid) |-> paid[k].amount]))
    IN  << Credit(entry.Receiver, rem, "remainder") >>

\* the management fee credited whatever the counters
FeeCreditsAlways(parent, rewards, entry) ==
    << Credit(entry.Receiver, rewards.ManagementFee, "fee") >>

\* the management-fee credit of a signup, on the parent block's counters
FeeCredits(parent, rewards, entry) ==
    IF ManagementFeeDue(parent.nSignups, parent.totalWei)
    THEN << Credit(entry.Receiver, rewards.ManagementFee, "fee") >>
    ELSE <<>>

\* the per-signup bonus credited twice
MinerCreditsTwice(coinbase, rewards) ==
    << Credit(coinbase, rewards.MinerReward, "miner"),
       Credit(coinbase, rewards.MinerReward, "miner") >>

\* the per-signup credit of the block's coinbase
MinerCredits(coinbase, rewards) == << Credit(coinbase, rewards.MinerReward, "miner") >>

\* the receiver pair used the wrong way round: the future fund's grant to
\* the receiver, the fee and the remainder to the future fund
PayRewardsPairSwapped(parent, rewards, entry, coinbase, member, ancestors) ==
    << Credit(member, rewards.SignupReward, "signup"),
       Credit(entry.Receiver, rewards.URFutureFundFee, "urff") >>
    \o FeeCredits(parent, rewards, [Receiver |-> entry.URFF, URFF |-> entry.Receiver])
    \o AncestorCredits(rewards, ancestors)
    \o RemainderCredits(rewards, [Receiver |-> entry.URFF, URFF |-> entry.Receiver],
                        AncestorCredits(rewards, ancestors))
    \o MinerCredits(coinbase, rewards)

\* the credits of one signup of member, in the order they are applied:
\* rewards is the tier's RewardSet, entry the receiver pair of the chain's
\* privileged root, ancestors the referral chain, nearest first
PayRewards(parent, rewards, entry, coinbase, member, ancestors) ==
    << Credit(member, rewards.SignupReward, "signup"),
       Credit(entry.URFF, rewards.URFutureFundFee, "urff") >>
    \o FeeCredits(parent, rewards, entry)
    \o AncestorCredits(rewards, ancestors)
    \o RemainderCredits(rewards, entry, AncestorCredits(rewards, ancestors))
    \o MinerCredits(coinbase, rewards)

\* the tier chosen from the count that includes the signup itself
SignupCreditsAfterCount(ch, coinbase, tx, kind) ==
    PayRewards(ch[Len(ch)],
               ScaledRewards[GetFactor(ch[Len(ch)].nSignups + 1)],
               PrivilegedAddressesReceivers[SignupRoot(ch, tx.from, tx.data)],
               coinbase, tx.to,
               IF kind = MemberSignup THEN GetSignupChain(ch, tx.data, 0) ELSE <<>>)

\* the sender of a member signup paid as its first ancestor
SignupCreditsSenderFirst(ch, coinbase, tx, kind) ==
    PayRewards(ch[Len(ch)],
               ScaledRewards[GetFactor(ch[Len(ch)].nSignups)],
               PrivilegedAddressesReceivers[SignupRoot(ch, tx.from, tx.data)],
               coinbase, tx.to,
               IF kind = MemberSignup
               THEN << tx.from >> \o GetSignupChain(ch, tx.data, 1)
               ELSE <<>>)

\* the credits of the signup tx of the given kind, sealed on top of ch
SignupCredits(ch, coinbase, tx, kind) ==
    PayRewards(ch[Len(ch)],
               ScaledRewards[GetFactor(ch[Len(ch)].nSignups)],
               PrivilegedAddressesReceivers[SignupRoot(ch, tx.from, tx.data)],
               coinbase, tx.to,
               IF kind = MemberSignup THEN GetSignupChain(ch, tx.data, 0) ELSE <<>>)

\* the running wei counter fed the miner bonus a second time, on top of Total
SignupWeiPlusBonus(ch) ==
    LET parent == ch[Len(ch)]
    IN  AddAmt(AddAmt(ScaledRewards[GetFactor(parent.nSignups)].Total,
                      CalculateTxManagementFee(parent.nSignups, parent.totalWei)),
               BlockReward)

\* the running wei counter fed the tier's Total alone, without the fee
SignupWeiNoFee(ch) == ScaledRewards[GetFactor(ch[Len(ch)].nSignups)].Total

\* what one signup adds to the block's running wei counter: the tier's
\* Total and the management fee when it is due
SignupWei(ch) ==
    LET parent == ch[Len(ch)]
    IN  AddAmt(ScaledRewards[GetFactor(parent.nSignups)].Total,
               CalculateTxManagementFee(parent.nSignups, parent.totalWei))

\* the running signup counter set, not incremented
CountSignupOnce(signups) == 1

\* the running signup counter after one more signup
CountSignup(signups) == signups + 1

\* the value of tx moved from its sender to its recipient
Transfer(st, tx) ==
    AddBalance(AddBalance(st, tx.from, Wei(0 - tx.value)), tx.to, Wei(tx.value))

\* the bonus without its cap
BonusUncapped(value) == Amt(10 * value, 0)

\* the bonus of a qualifying transaction: 10^15 wei for every wei of its
\* value, 2000 Ether at most
Bonus(value) ==
    IF LeqAmt(Amt(10 * value, 0), UR(2000)) THEN Amt(10 * value, 0) ELSE UR(2000)

\* a plain transfer (no data) sent by an address of PrivilegedAddresses
Qualifying(tx) == tx.from \in PrivilegedAddresses /\ tx.data = <<>>

\* the bonus paid on top of the value
BonusTransferOnTop(st, tx) ==
    AddBalance(AddBalance(st, tx.from, Wei(0 - tx.value)), tx.to,
               AddAmt(Wei(tx.value), Bonus(tx.value)))

\* a qualifying transaction: the sender pays the value, the recipient is
\* credited the bonus in its place
BonusTransfer(st, tx) ==
    AddBalance(AddBalance(st, tx.from, Wei(0 - tx.value)), tx.to, Bonus(tx.value))

\* a signup's value taken from its sender and handed to nobody
MoveValueDebitOnly(st, tx, kind) ==
    IF kind = NotSignup
    THEN (IF Qualifying(tx) THEN BonusTransfer(st, tx) ELSE Transfer(st, tx))
    ELSE AddBalance(st, tx.from, Wei(0 - tx.value))

\* a signup moving its value like any other transaction
MoveValueAlways(st, tx, kind) == Transfer(st, tx)

\* the value of a transaction of the given kind: a transfer moves it, with
\* the bonus when it qualifies; a signup leaves it with its sender (the
\* privileged key's balance is the same after its signups, a new member's
\* balance is SignupReward exactly)
MoveValue(st, tx, kind) ==
    IF kind # NotSignup THEN st
    ELSE IF Qualifying(tx) THEN BonusTransfer(st, tx)
    ELSE Transfer(st, tx)

\* the reward hook: what a transaction of the given kind credits
RewardCredits(ch, coinbase, tx, kind) ==
    IF kind = NotSignup THEN <<>> ELSE SignupCredits(ch, coinbase, tx, kind)

\* the block in progress w after tx of the given kind: the value moved, the
\* credits applied, the transaction included, the running counters advanced
ApplyMessage(ch, w, tx, kind, credits) ==
    [state |-> ApplyCredits(MoveValue(w.state, tx, kind), credits),
     txs |-> Append(w.txs, [from |-> tx.from, to |-> tx.to, value |-> tx.value,
                             data |-> tx.data, hash |-> tx.hash, kind |-> kind]),
     credits |-> Append(w.credits, credits),
     failed |-> w.failed,
     signups |-> IF kind = NotSignup THEN w.signups ELSE CountSignup(w.signups),
     wei |-> IF kind = NotSignup THEN w.wei ELSE AddAmt(w.wei, SignupWei(ch))]

\* the credits of tx decided on the counters as the earlier signups of the
\* same block have advanced them
ApplyClassifiedRunning(ch, coinbase, w, tx, kind) ==
    LET parent == ch[Len(ch)]
        advanced == [parent EXCEPT !.nSignups = @ + w.signups,
                                   !.totalWei = AddAmt(@, w.wei)]
    IN  ApplyMessage(ch, w, tx, kind,
            IF kind = NotSignup THEN <<>>
            ELSE PayRewards(advanced,
                            ScaledRewards[GetFactor(advanced.nSignups)],
                            PrivilegedAddressesReceivers[SignupRoot(ch, tx.from, tx.data)],
                            coinbase, tx.to,
                            IF kind = MemberSignup THEN GetSignupChain(ch, tx.data, 0)
                            ELSE <<>>))

\* tx, classified, applied with the credits of its kind
ApplyClassified(ch, coinbase, w, tx, kind) ==
    ApplyMessage(ch, w, tx, kind, RewardCredits(ch, coinbase, tx, kind))

\* the rewards of a transaction applied whether its sender can pay or not
ApplyTransactionUnchecked(ch, coinbase, w, tx) ==
    ApplyClassified(ch, coinbase, w, tx, Classify(ch, tx))

\* one transaction applied to the block in progress w on top of ch: a
\* transaction whose sender cannot pay its value is left out of the block
ApplyTransaction(ch, coinbase, w, tx) ==
    IF ~LeqAmt(Wei(tx.value), w.state[tx.from]) THEN [w EXCEPT !.failed = Append(@, tx)]
    ELSE ApplyClassified(ch, coinbase, w, tx, Classify(ch, tx))

RECURSIVE ApplyTransactions(_, _, _, _)
ApplyTransactions(ch, coinbase, w, txs) ==
    IF txs = <<>> THEN w
    ELSE ApplyTransactions(ch, coinbase, ApplyTransaction(ch, coinbase, w, Head(txs)), Tail(txs))

\* the block reward of finalization
AccumulateRewards(st, coinbase) == AddBalance(st, coinbase, BlockReward)

\* the block finalized with a totalWei that leaves the block reward out
FinalizeRewardUncounted(parent, coinbase, w) ==
    [block |-> [number |-> parent.number + 1,
                coinbase |-> coinbase,
                nSignups |-> parent.nSignups + w.signups,
                totalWei |-> AddAmt(parent.totalWei, w.wei),
                txs |-> w.txs],
     state |-> AccumulateRewards(w.state, coinbase),
     credits |-> w.credits,
     failed |-> w.failed]

\* the block in progress w finalized on top of parent: the header counters,
\* the block reward, and the balances after the block
Finalize(parent, coinbase, w) ==
    [block |-> [number |-> parent.number + 1,
                coinbase |-> coinbase,
                nSignups |-> parent.nSignups + w.signups,
                totalWei |-> AddAmt(AddAmt(parent.totalWei, w.wei), BlockReward),
                txs |-> w.txs],
     state |-> AccumulateRewards(w.state, coinbase),
     credits |-> w.credits,
     failed |-> w.failed]

\* the block sealed from the queued transactions txs on top of ch, whose
\* head has the balances st
SealBlock(ch, st, coinbase, txs) ==
    Finalize(ch[Len(ch)], coinbase,
             ApplyTransactions(ch, coinbase,
                 [state |-> st, txs |-> <<>>, credits |-> <<>>, failed |-> <<>>,
                  signups |-> 0, wei |-> ZeroAmt], txs))

\* memberNode{addr, signBlock, signTx} of the signups of a sealed block
NewNodes(block) ==
    LET RECURSIVE Nodes(_)
        Nodes(txs) ==
            IF txs = <<>> THEN <<>>
            ELSE (IF Head(txs).kind = NotSignup THEN <<>>
                  ELSE << [addr |-> Head(txs).to, signBlock |-> block.number,
                           signTx |-> Head(txs).hash] >>)
                 \o Nodes(Tail(txs))
    IN  Nodes(block.txs)

\* the sealed block becomes the head of the chain
InsertBlock(sealed) ==
    /\ chain' = Append(chain, sealed.block)
    /\ statedb' = sealed.state
    /\ parentdb' = statedb
    /\ credited' = sealed.credits
    /\ nodes' = nodes \o NewNodes(sealed.block)

\* the import check that compares the signup counter alone
ValidateCountersSignupsOnly(block, replayed) ==
    block.nSignups = replayed.block.nSignups

\* import validation of the extended header: the counters the block
\* declares are those of its replay
ValidateCounters(block, replayed) ==
    /\ block.nSignups = replayed.block.nSignups
    /\ block.totalWei = replayed.block.totalWei

\* the verdict on block, replayed on the head: inserted, or rejected with
\* the chain and its state left as they are
InsertReplayed(block, replayed) ==
    /\ blocks' = << block >>
    /\ IF ValidateCounters(block, replayed)
       THEN InsertBlock(replayed)
       ELSE UNCHANGED << chain, statedb, parentdb, credited, nodes >>

\* bchain.InsertChain(types.Blocks{block}): the transactions of block are
\* replayed on the head of the chain
InsertChain(block) ==
    InsertReplayed(block, SealBlock(chain, statedb, block.coinbase, block.txs))

\* the block sealed here is inserted; the transactions its sealing refused
\* are dropped from the queue
InsertSealed(sealed) ==
    /\ InsertChain(sealed.block)
    /\ dropped' = sealed.failed

\* NewSimulator(genesisAccount): the privileged key holds one Ether
GenesisBlock ==
    [number |-> 0, coinbase |-> 0, nSignups |-> 0, totalWei |-> ZeroAmt, txs |-> <<>>]

GenesisState == [a \in Addresses |-> IF a = privKeyAddr THEN UR(1) ELSE ZeroAmt]

\* ------------------------------------------------------------ actions

\* the address of the next generated key (newKeyAddr, newMember): one is
\* generated along with every transaction, so none is used twice
NextAddr == minerAddr + nextHash

\* the payloads a transaction is sent with
Payloads ==
    {<<>>, << 1 >>, << 1, 0 >>}
    \cup (IF nodes = <<>> THEN {}
          ELSE LET first == nodes[1]
                   last == nodes[Len(nodes)]
               IN  {SignupData(FALSE, last.signBlock, last.signTx),
                    SignupData(FALSE, first.signBlock, first.signTx),
                    SignupData(FALSE, 0, last.signTx)})

\* the payloads a member sends: none, the privileged signup's, a pointer to
\* its own signup and one to a transaction block 0 does not hold
MemberPayloads ==
    {<<>>, << 1 >>}
    \cup (IF nodes = <<>> THEN {}
          ELSE LET last == nodes[Len(nodes)]
               IN  {SignupData(FALSE, last.signBlock, last.signTx),
                    SignupData(FALSE, 0, last.signTx)})

\* the member signed up last, if any
LastMember == IF nodes = <<>> THEN {} ELSE {nodes[Len(nodes)].addr}

Senders == {privKeyAddr} \cup LastMember

Recipients == {NextAddr, minerAddr} \cup LastMember

Values == {0, 1}

NewTx(from, to, value, data) ==
    [from |-> from, to |-> to, value |-> value, data |-> data, hash |-> nextHash]

\* sim.AddPendingTx(&TxData{From, To, Value, Data})
AddPendingTx(from, to, value, data) ==
    /\ free < MaxFree
    /\ Len(chain) <= MaxBlocks
    /\ pending' = Append(pending, NewTx(from, to, value, data))
    /\ nextHash' = nextHash + 1
    /\ free' = free + 1
    /\ UNCHANGED << chain, statedb, parentdb, credited, nodes, blocks, dropped >>

\* sim.Commit() with transactions queued
Commit ==
    /\ pending # <<>>
    /\ Len(chain) <= MaxBlocks
    /\ InsertSealed(SealBlock(chain, statedb, minerAddr, pending))
    /\ pending' = <<>>
    /\ UNCHANGED << nextHash, free >>

\* sim.Commit() with nothing queued: an empty block
CommitEmpty ==
    /\ pending = <<>>
    /\ free < MaxFree
    /\ Len(chain) <= MaxBlocks
    /\ InsertSealed(SealBlock(chain, statedb, minerAddr, <<>>))
    /\ free' = free + 1
    /\ UNCHANGED << pending, nextHash >>

\* signMember(sim, addr, block, txHash, fromPrivileged) as
\* TestMembersRewardChain calls it: the privileged key signs up a new
\* address, referred by the member signed up last, and the block is sealed
SignMember ==
    /\ Len(chain) <= MaxBlocks
    /\ LET fromPrivileged == nodes = <<>>
           node == IF fromPrivileged THEN [signBlock |-> 0, signTx |-> 0]
                   ELSE nodes[Len(nodes)]
           tx == NewTx(privKeyAddr, NextAddr, 1,
                       SignupData(fromPrivileged, node.signBlock, node.signTx))
       IN  InsertSealed(SealBlock(chain, statedb, minerAddr, Append(pending, tx)))
    /\ pending' = <<>>
    /\ nextHash' = nextHash + 1
    /\ UNCHANGED free

Init ==
    /\ chain = << GenesisBlock >>
    /\ statedb = GenesisState
    /\ parentdb = GenesisState
    /\ credited = <<>>
    /\ nodes = <<>>
    /\ pending = <<>>
    /\ nextHash = 1
    /\ free = 0
    /\ blocks = <<>>
    /\ dropped = <<>>

\* the transactions queued freely: a new address is sent every payload; the
\* miner and the member signed up last are sent the privileged signup; a
\* transaction without value is signup-shaped; the payload of a wrong
\* length, the transaction without value and the pointer to the first
\* member are the privileged key's
TxInputs ==
    LET new == NextAddr
    IN  {t \in [from : Senders, to : Recipients, value : Values, data : Payloads] :
            /\ t.to # new => t.from = privKeyAddr /\ t.data = << 1 >> /\ t.value = 1
            /\ t.value = 0 => t.data = << 1 >>
            /\ t.from # privKeyAddr => t.value = 1 /\ t.data \in MemberPayloads}

Next ==
    \/ /\ free < MaxFree
       /\ \E t \in TxInputs : AddPendingTx(t.from, t.to, t.value, t.data)
    \/ Commit
    \/ CommitEmpty
    \/ SignMember

Spec == Init /\ [][Next]_vars

\* the same simulator, its chains kept short
NextShort ==
    \/ /\ Len(chain) <= MaxShort
       /\ free < MaxFree
       /\ \E t \in TxInputs : AddPendingTx(t.from, t.to, t.value, t.data)
    \/ Len(chain) <= MaxShort /\ Commit
    \/ Len(chain) <= MaxShort /\ CommitEmpty
    \/ Len(chain) <= MaxShort /\ SignMember

SpecShort == Init /\ [][NextShort]_vars

\* ----------------------------------------------- blocks of other nodes

\* the transactions of a block sealed elsewhere: none, a transfer of the
\* privileged key, or its signup of a new address
PeerTxs ==
    {<<>>,
     << NewTx(privKeyAddr, NextAddr, 1, <<>>) >>,
     << NewTx(privKeyAddr, NextAddr, 1, << 1 >>) >>}

\* what a block's header declares beyond the counters of its transactions
PeerSignups == {0, 1}
PeerWei == {ZeroAmt, Wei(1)}

\* a block sealed on the head by the same rules, its header declaring
\* dSignups more signups and dWei more wei than its transactions make
PeerBlock(txs, dSignups, dWei) ==
    [SealBlock(chain, statedb, minerAddr, txs).block EXCEPT
        !.nSignups = @ + dSignups,
        !.totalWei = AddAmt(@, dWei)]

\* a block received from another node is imported
ImportBlock(txs, dSignups, dWei) ==
    /\ free < MaxFree
    /\ Len(chain) <= MaxBlocks
    /\ InsertChain(PeerBlock(txs, dSignups, dWei))
    /\ nextHash' = nextHash + 1
    /\ free' = free + 1
    /\ dropped' = <<>>
    /\ UNCHANGED pending

NextImport ==
    \/ SignMember
    \/ \E txs \in PeerTxs, dSignups \in PeerSignups, dWei \in PeerWei :
           ImportBlock(txs, dSignups, dWei)

\* genesisAccount.Balance: one Ether, or a single wei that one transfer
\* spends
GenesisBalances == {UR(1), Wei(1)}

\* NewSimulator(genesisAccount) with the privileged key holding balance
GenesisStateOf(balance) ==
    [a \in Addresses |-> IF a = privKeyAddr THEN balance ELSE ZeroAmt]

InitImport ==
    /\ chain = << GenesisBlock >>
    /\ \E balance \in GenesisBalances :
           /\ statedb = GenesisStateOf(balance)
           /\ parentdb = GenesisStateOf(balance)
    /\ credited = <<>>
    /\ nodes = <<>>
    /\ pending = <<>>
    /\ nextHash = 1
    /\ free = 0
    /\ blocks = <<>>
    /\ dropped = <<>>

SpecImport == InitImport /\ [][NextImport]_vars

\* ------------------------------------------- the generated test chain

\* setupGenesis(t, privAddress, funds): the key of setupPrivilegedAddress
\* holds 10000 Ether
GenesisForTesting == [a \in Addresses |-> IF a = privAddress THEN UR(10000) ELSE ZeroAmt]

\* the values of the transactions: below, at and above the value whose
\* bonus is 2000 Ether
TransactionValues == {1, 20, 300, 2000000, 7000000}

\* GenerateChain and buildBlockChain of one block: privAddress sends value
\* to a fresh transactionAddr without data, the block's coinbase is the
\* zero address, and the block is inserted
GenerateChain(value) ==
    /\ Len(chain) <= MaxGenerated
    /\ InsertSealed(SealBlock(chain, statedb, ZeroAddress,
                              << NewTx(privAddress, NextAddr, value, <<>>) >>))
    /\ nextHash' = nextHash + 1
    /\ UNCHANGED << pending, free >>

InitBonus ==
    /\ chain = << GenesisBlock >>
    /\ statedb = GenesisForTesting
    /\ parentdb = GenesisForTesting
    /\ credited = <<>>
    /\ nodes = <<>>
    /\ pending = <<>>
    /\ nextHash = 1
    /\ free = 0
    /\ blocks = <<>>
    /\ dropped = <<>>

NextBonus == \E value \in TransactionValues : GenerateChain(value)

SpecBonus == InitBonus /\ [][NextBonus]_vars

\* every balance stays representable: the low limb never carries
TypeOK ==
    \A a \in Addresses : statedb[a].wei \in -1000..1000 /\ statedb[a].hi >= 0

\* ------------------------------------------------- the head block's view

HasParent == Len(chain) > 1

ParentBlock == chain[Len(chain) - 1]

\* the chain the head block was sealed on
ParentChain == SubSeq(chain, 1, Len(chain) - 1)

HeadTxs == CurrentBlock.txs

\* the transactions of the head block that the classifier called signups
HeadSignups == {i \in 1..Len(HeadTxs) : HeadTxs[i].kind # NotSignup}

\* the RewardSet of the tier the parent block's signup count selects
HeadRewards == ScaledRewards[GetFactor(ParentBlock.nSignups)]

\* everything the credits cs add to address a
CreditedTo(cs, a) ==
    SumAmts([k \in 1..Len(cs) |-> IF cs[k].to = a THEN cs[k].amount ELSE ZeroAmt])

\* everything the credits cs add in role r
CreditedAs(cs, r) ==
    SumAmts([k \in 1..Len(cs) |-> IF cs[k].role = r THEN cs[k].amount ELSE ZeroAmt])

\* the management fees credited in the head block
HeadFees == SumAmts([i \in 1..Len(credited) |-> CreditedAs(credited[i], "fee")])

\* ------------------------------------------------------------- claims

\* C1: for every block B with parent P, B.nSignups = P.nSignups + the
\* number of transactions of B the classifier calls signups; a block
\* without signup transactions carries its parent's nSignups.
C1_NSignupsCountsSignups ==
    HasParent => CurrentBlock.nSignups = ParentBlock.nSignups + Cardinality(HeadSignups)

\* a block with two signups, on a chain that had signups before
C1_Witness ==
    /\ HasParent
    /\ Cardinality(HeadSignups) = 2
    /\ CurrentBlock.nSignups = ParentBlock.nSignups + 2
    /\ ParentBlock.nSignups > 0

\* C2: for every block B with parent P, B.totalWei - P.totalWei =
\* BlockReward + the applicable RewardSet.Total for each signup of B + the
\* management fees credited in B; without signups exactly BlockReward.
C2_TotalWeiDelta ==
    HasParent =>
        SubAmt(CurrentBlock.totalWei, ParentBlock.totalWei) =
            AddAmt(BlockReward,
                   AddAmt(MulAmt(HeadRewards.Total, Cardinality(HeadSignups)),
                          HeadFees))

\* a block with a signup that paid the fee at a reduced tier
C2_Witness ==
    /\ HasParent
    /\ HeadSignups # {}
    /\ GetFactor(ParentBlock.nSignups) # FullRatio
    /\ \E i \in 1..Len(credited) : CreditedAs(credited[i], "fee") # ZeroAmt

HeadOtherIncome(a) ==
    SumAmts([i \in 1..Len(HeadTxs) |->
        AddAmt(SubAmt(IF HeadTxs[i].kind = NotSignup /\ HeadTxs[i].to = a
                      THEN Wei(HeadTxs[i].value) ELSE ZeroAmt,
                      IF HeadTxs[i].kind = NotSignup /\ HeadTxs[i].from = a
                      THEN Wei(HeadTxs[i].value) ELSE ZeroAmt),
               SumAmts([k \in 1..Len(credited[i]) |->
                   IF credited[i][k].to = a /\ credited[i][k].role # "miner"
                   THEN credited[i][k].amount ELSE ZeroAmt]))])

\* C4 as claimed: after a block with k signups the coinbase balance has
\* grown by exactly BlockReward x (1 + k).
C4_Original ==
    HasParent =>
        SubAmt(statedb[CurrentBlock.coinbase], parentdb[CurrentBlock.coinbase]) =
            MulAmt(BlockReward, 1 + Cardinality(HeadSignups))

\* C4: after a block with k signups the coinbase has been credited
\* BlockReward x (1 + k) in miner rewards, one at finalization and one per
\* signup, never twice; its balance grows by exactly that plus what the
\* block's transactions send it or credit it in another role (as recipient
\* of a signup, as ancestor), so by exactly BlockReward x (1 + k) when the
\* coinbase takes no other part in the block.
C4_CoinbaseGrowth ==
    HasParent =>
        LET coinbase == CurrentBlock.coinbase
        IN  SubAmt(statedb[coinbase], parentdb[coinbase]) =
                AddAmt(MulAmt(BlockReward, 1 + Cardinality(HeadSignups)),
                       HeadOtherIncome(coinbase))

\* a block with two signups whose coinbase takes no other part in it
C4_Witness ==
    /\ HasParent
    /\ Cardinality(HeadSignups) = 2
    /\ HeadOtherIncome(CurrentBlock.coinbase) = ZeroAmt
    /\ SubAmt(statedb[CurrentBlock.coinbase], parentdb[CurrentBlock.coinbase])
           = MulAmt(BlockReward, 3)

\* the transactions of the head block sent by a privileged address with
\* data [0x01] and a value
HeadPrivilegedSignups ==
    {i \in 1..Len(HeadTxs) :
        /\ HeadTxs[i].from \in DOMAIN PrivilegedAddressesReceivers
        /\ HeadTxs[i].data = << 1 >>
        /\ HeadTxs[i].value > 0}

\* the management fee due on the parent block's counters
HeadFee == CalculateTxManagementFee(ParentBlock.nSignups, ParentBlock.totalWei)

If(cond, amount) == IF cond THEN amount ELSE ZeroAmt

\* C5: a privileged-origin signup credits SignupReward to the recipient,
\* URFutureFundFee to the sender's URFF address and, having no ancestors,
\* the whole TotalSignupRewards to the sender's receiver address, plus
\* ManagementFee when the predicate holds; nobody else but the coinbase
\* is credited.
C5_PrivilegedSignupCredits ==
    HasParent =>
        \A i \in HeadPrivilegedSignups :
            LET tx == HeadTxs[i]
                entry == PrivilegedAddressesReceivers[tx.from]
                r == HeadRewards
            IN  \A a \in Addresses :
                    CreditedTo(credited[i], a) =
                        AddAmt(AddAmt(If(a = tx.to, r.SignupReward),
                                      If(a = entry.URFF, r.URFutureFundFee)),
                               AddAmt(If(a = entry.Receiver,
                                         AddAmt(r.TotalSignupRewards, HeadFee)),
                                      If(a = CurrentBlock.coinbase, r.MinerReward)))

\* a privileged signup sealed after earlier signups, without the fee
C5_Witness ==
    /\ HasParent
    /\ HeadPrivilegedSignups # {}
    /\ ParentBlock.nSignups > 0
    /\ HeadFee = ZeroAmt
    /\ \E i \in HeadPrivilegedSignups :
           CreditedTo(credited[i], ReceiverAddr) = HeadRewards.TotalSignupRewards

\* the transactions up the referral chain of a payload, nearest first, n
\* of them at most: the referenced one, the one that one references, ...
RECURSIVE ReferralWalk(_, _, _)
ReferralWalk(ch, data, n) ==
    IF n = 0 THEN <<>>
    ELSE LET ref == Referenced(ch, data)
         IN  IF ref = <<>> THEN <<>>
             ELSE ref \o ReferralWalk(ch, ref[1].data, n - 1)

\* the credits of the head block's i-th transaction paid in role r
HeadCreditsAs(i, r) == SelectSeq(credited[i], LAMBDA c : c.role = r)

\* the head block's signups that carry a 41-byte payload
HeadMemberSignups == {i \in HeadSignups : Len(HeadTxs[i].data) = 41}

\* the credits paid go to the recipients of the walk s in its order, the
\* k-th the k-th of the amounts
PaidNearestFirst(s, paid, amounts) ==
    \A k \in 1..Len(s) :
        /\ Len(paid) >= k
        /\ paid[k].to = s[k].to
        /\ paid[k].amount = amounts[k]

\* C6: for a member signup whose pointer leads to the earlier transactions
\* s1, s2, ... (s1 the referenced one, each next one referenced by the one
\* before), the recipient of s_k is credited MembersSignupRewards[k - 1]
\* (0-indexed): the nearest ancestor the first amount, and so on in order.
C6_AncestorsNearestFirst ==
    HasParent =>
        \A i \in HeadMemberSignups :
            PaidNearestFirst(ReferralWalk(ParentChain, HeadTxs[i].data, MaxAncestors),
                             HeadCreditsAs(i, "ancestor"),
                             HeadRewards.MembersSignupRewards)

\* a member signup that paid three ancestors or more
C6_Witness ==
    /\ HasParent
    /\ \E i \in HeadMemberSignups :
           /\ Len(ReferralWalk(ParentChain, HeadTxs[i].data, MaxAncestors)) >= 3
           /\ Len(HeadCreditsAs(i, "ancestor")) >= 3
           /\ HeadCreditsAs(i, "ancestor")[1].amount # HeadCreditsAs(i, "ancestor")[3].amount

\* the recipients of the 7 nearest transactions up a payload's chain
NearestAncestors(ch, data) ==
    LET s == ReferralWalk(ch, data, MaxAncestors)
    IN  {s[k].to : k \in 1..Len(s)}

\* the credits cs leave every address outside paid with nothing
CreditsOnly(cs, paid) ==
    \A k \in 1..Len(cs) : cs[k].amount # ZeroAmt => cs[k].to \in paid

\* C7: a member signup credits at most 7 ancestors: when the referral chain
\* is longer than 7 only the 7 nearest are paid, and an older ancestor (any
\* address that is not the new member, the receiver, the future fund, the
\* coinbase or one of the 7 nearest) is credited nothing by that signup.
C7_AtMostSevenAncestors ==
    HasParent =>
        \A i \in HeadMemberSignups :
            /\ Len(HeadCreditsAs(i, "ancestor")) <= MaxAncestors
            /\ CreditsOnly(credited[i],
                           {HeadTxs[i].to,
                            PrivilegedAddressesReceivers[privKeyAddr].Receiver,
                            PrivilegedAddressesReceivers[privKeyAddr].URFF,
                            CurrentBlock.coinbase}
                               \cup NearestAncestors(ParentChain, HeadTxs[i].data))

\* a member signup with an eighth ancestor, distinct from the nearer seven,
\* that paid seven
C7_Witness ==
    /\ HasParent
    /\ \E i \in HeadMemberSignups :
           LET s == ReferralWalk(ParentChain, HeadTxs[i].data, MaxAncestors + 1)
           IN  /\ Len(s) = MaxAncestors + 1
               /\ s[MaxAncestors + 1].to \notin NearestAncestors(ParentChain, HeadTxs[i].data)
               /\ CreditedTo(credited[i], s[MaxAncestors + 1].to) = ZeroAmt
               /\ Len(HeadCreditsAs(i, "ancestor")) = MaxAncestors

\* rem is one credit to the receiver of what the ancestors paid left of total
RemainderOf(rem, ancestors, total) ==
    /\ Len(rem) = 1
    /\ rem[1].to = PrivilegedAddressesReceivers[privKeyAddr].Receiver
    /\ AddAmt(SumAmts([k \in 1..Len(ancestors) |-> ancestors[k].amount]), rem[1].amount)
           = total
    /\ LeqAmt(ZeroAmt, rem[1].amount)
    /\ rem[1].amount = ZeroAmt <=> Len(ancestors) = MaxAncestors

\* C8: for every signup the remainder credited to the receiver equals
\* TotalSignupRewards minus the ancestor rewards actually paid, is never
\* negative, and is zero exactly when 7 ancestors were paid; ancestors plus
\* remainder total TotalSignupRewards.
C8_Remainder ==
    HasParent =>
        \A i \in HeadSignups :
            RemainderOf(HeadCreditsAs(i, "remainder"), HeadCreditsAs(i, "ancestor"),
                        HeadRewards.TotalSignupRewards)

\* a signup that paid 7 ancestors and left nothing, at a reduced tier
C8_Witness ==
    /\ HasParent
    /\ GetFactor(ParentBlock.nSignups) # FullRatio
    /\ \E i \in HeadSignups :
           /\ Len(HeadCreditsAs(i, "ancestor")) = MaxAncestors
           /\ CreditedAs(credited[i], "remainder") = ZeroAmt

\* everything the head block's i-th transaction credited
HeadCreditSum(i) == SumAmts([k \in 1..Len(credited[i]) |-> credited[i][k].amount])

\* C9 as claimed: the reward credits of a signup sum to rewards.Total +
\* (ManagementFee if the predicate holds) + BlockReward.
C9_Original ==
    HasParent =>
        \A i \in HeadSignups :
            HeadCreditSum(i) = AddAmt(AddAmt(HeadRewards.Total, HeadFee), BlockReward)

\* each of the head block's transactions is credits sum to total, a
\* BlockReward of it in the miner's role
EachSumsTo(is, total) ==
    \A i \in is :
        /\ HeadCreditSum(i) = total
        /\ CreditedAs(credited[i], "miner") = BlockReward

\* C9: the reward credits of a signup (new member, ancestors, remainder,
\* future fund, management fee, coinbase bonus) sum to rewards.Total +
\* (ManagementFee if the predicate holds, else 0); the per-signup coinbase
\* bonus of one BlockReward is the MinerReward that Total already counts.
C9_CreditsSumToTotal ==
    HasParent =>
        EachSumsTo(HeadSignups, AddAmt(HeadRewards.Total, HeadFee))

\* a member signup with ancestors, and one without the fee
C9_Witness ==
    /\ HasParent
    /\ HeadFee = ZeroAmt
    /\ \E i \in HeadMemberSignups :
           /\ HeadCreditsAs(i, "ancestor") # <<>>
           /\ HeadCreditSum(i) = HeadRewards.Total

\* a transaction that is no signup by its shape: no data, a first byte other
\* than 0x01, no value, or a payload of neither 1 nor 41 bytes
NotSignupShape(tx) ==
    \/ Len(tx.data) = 0
    \/ tx.data[1] # 1
    \/ tx.value = 0
    \/ Len(tx.data) \notin {1, 41}

\* the head block's transactions that are no signups
HeadNotSignups ==
    {i \in 1..Len(HeadTxs) :
        NotSignupShape(HeadTxs[i]) \/ HeadTxs[i].kind = NotSignup}

\* what the head block's transfers move to (and from) address a
HeadTransfers(a) ==
    SumAmts([i \in 1..Len(HeadTxs) |->
        SubAmt(If(HeadTxs[i].to = a, Wei(HeadTxs[i].value)),
               If(HeadTxs[i].from = a, Wei(HeadTxs[i].value)))])

SignupShaped(tx) == Len(tx.data) > 0 /\ tx.data[1] = 1 /\ tx.value # 0

\* the sender is an existing member: the recipient of a signup on ch
ExistingMember(ch, tx) == tx.from \in Members(ch)

ToSignup(ref) == ref # <<>> /\ ref[1].kind # NotSignup

\* the credits paid are one for each transaction of the walk s, in order
PaidUpTheWalk(s, paid) ==
    /\ Len(paid) = Len(s)
    /\ Len(paid) >= 1
    /\ \A k \in 1..Len(s) : paid[k].to = s[k].to /\ paid[k].amount # ZeroAmt

\* the head block's transactions sent by the privileged key with a 41-byte
\* payload that points at a signup on the chain
HeadReferralSignups ==
    {i \in 1..Len(HeadTxs) :
        /\ HeadTxs[i].from = privKeyAddr
        /\ SignupShaped(HeadTxs[i])
        /\ Len(HeadTxs[i].data) = 41
        /\ ToSignup(Referenced(ParentChain, HeadTxs[i].data))}

\* the transactions refs of the head block, sealed on ch, were applied as
\* member signups that paid up their walks and reward to the new member
ReferralsApplied(refs, ch, reward) ==
    /\ \A i \in refs :
           /\ HeadTxs[i].kind = MemberSignup
           /\ PaidUpTheWalk(ReferralWalk(ch, HeadTxs[i].data, MaxAncestors),
                            HeadCreditsAs(i, "ancestor"))
           /\ CreditedAs(credited[i], "signup") = reward
    /\ CurrentBlock.nSignups >= ParentBlock.nSignups + Cardinality(refs)

\* C12: a transaction sent by the privileged key with a 41-byte payload
\* (0x01, block number, hash of an earlier signup transaction) is applied as
\* a signup with referral rewards: the recipient of the referenced
\* transaction and the recipients further up its chain are credited as
\* ancestors, the new member gets SignupReward, and nSignups counts it.
C12_PrivilegedKeyReferral ==
    HasParent => ReferralsApplied(HeadReferralSignups, ParentChain, HeadRewards.SignupReward)

\* signMember's referral signup of a member whose referrer was itself
\* referred: two ancestors credited, nSignups one up
C12_Witness ==
    /\ HasParent
    /\ Len(HeadTxs) = 1
    /\ HeadReferralSignups = {1}
    /\ Len(HeadCreditsAs(1, "ancestor")) = 2
    /\ CurrentBlock.nSignups = ParentBlock.nSignups + 1

\* ------------------------------------------------- C13, C14: the value

\* what the head block added to the balance of address a
HeadDelta(a) == SubAmt(statedb[a], parentdb[a])

\* the rewards address a was credited in the head block, the block reward
\* of finalization included
HeadCredits(a) ==
    AddAmt(SumAmts([i \in 1..Len(credited) |-> CreditedTo(credited[i], a)]),
           IF a = CurrentBlock.coinbase THEN BlockReward ELSE ZeroAmt)

\* the balances st after the values of the transactions txs have moved
\* from sender to recipient: those of the transfers, and those of the
\* signups as well when signupsToo
RECURSIVE ValuesMoved(_, _, _)
ValuesMoved(st, txs, signupsToo) ==
    IF txs = <<>> THEN st
    ELSE ValuesMoved(IF signupsToo \/ Head(txs).kind = NotSignup
                     THEN Transfer(st, Head(txs)) ELSE st,
                     Tail(txs), signupsToo)

\* the balances st after the credits of every transaction of css
RECURSIVE AllCredited(_, _)
AllCredited(st, css) ==
    IF css = <<>> THEN st ELSE AllCredited(ApplyCredits(st, Head(css)), Tail(css))

\* the balances st after the rewards of the head block, the block reward
\* of finalization included
HeadCredited(st) ==
    AddBalance(AllCredited(st, credited), CurrentBlock.coinbase, BlockReward)

\* C13 as claimed: a signup's own value is transferred like any value: over
\* a block every sender is debited the value of each of its transactions,
\* signups included, and every recipient ends with that value on top of its
\* rewards.
C13_Original ==
    HasParent => statedb = HeadCredited(ValuesMoved(parentdb, HeadTxs, TRUE))

\* C13: the value of a signup is not moved: the sender of a signup is not
\* debited its value and the recipient ends with signupReward, not with
\* value + signupReward; over a block every balance changes by exactly the
\* rewards credited to it and the values of the transactions that are not
\* signups.
C13_SignupValueStays ==
    HasParent =>
        /\ statedb = HeadCredited(ValuesMoved(parentdb, HeadTxs, FALSE))
        /\ Len(HeadTxs) = 1 /\ HeadTxs[1].kind # NotSignup =>
               /\ HeadDelta(HeadTxs[1].from) = HeadCredits(HeadTxs[1].from)
               /\ HeadDelta(HeadTxs[1].to) = HeadCredits(HeadTxs[1].to)

\* a block of one signup with a value of 1 wei, sent by an address the
\* block credits nothing, to a new address that ends with SignupReward
C13_Witness ==
    /\ HasParent
    /\ Len(HeadTxs) = 1 /\ HeadSignups = {1}
    /\ HeadTxs[1].value = 1
    /\ HeadCredits(HeadTxs[1].from) = ZeroAmt
    /\ statedb[HeadTxs[1].from] = parentdb[HeadTxs[1].from]
    /\ parentdb[HeadTxs[1].to] = ZeroAmt
    /\ statedb[HeadTxs[1].to] = HeadRewards.SignupReward

\* every NotSignup value the privileged key sent on the chain
SentByKey ==
    LET all == AllIncluded(chain)
    IN  SumAmts([i \in 1..Len(all) |->
            IF all[i].kind = NotSignup /\ all[i].from = privKeyAddr
            THEN Wei(all[i].value) ELSE ZeroAmt])

\* the signups of the head block sent to a fresh address: one that was
\* empty before the block, that no other transaction of the block is sent
\* to and that does not mine the block
HeadFreshSignups ==
    {i \in HeadSignups :
        /\ parentdb[HeadTxs[i].to] = ZeroAmt
        /\ HeadTxs[i].to # CurrentBlock.coinbase
        /\ \A j \in 1..Len(HeadTxs) : HeadTxs[j].to = HeadTxs[i].to => j = i}

\* the signups the privileged key sent on the chain
KeySignups ==
    LET all == AllIncluded(chain)
    IN  {i \in 1..Len(all) : all[i].kind # NotSignup /\ all[i].from = privKeyAddr}

\* C14: after a signup with a value to a fresh address, the balance of that
\* address is exactly the SignupReward of the tier; whatever the number of
\* signups the privileged key has sent, its balance is its initial balance
\* (less the values of its transactions that are not signups).
C14_SignupRewardExactly ==
    /\ HasParent =>
           \A i \in HeadFreshSignups :
               statedb[HeadTxs[i].to] = HeadRewards.SignupReward
    /\ statedb[privKeyAddr] = SubAmt(GenesisState[privKeyAddr], SentByKey)

\* the privileged key has sent three signups and nothing else, the last to
\* a fresh address that holds SignupReward exactly, and has its initial
\* balance
C14_Witness ==
    /\ HasParent
    /\ Cardinality(KeySignups) >= 3
    /\ SentByKey = ZeroAmt
    /\ statedb[privKeyAddr] = GenesisState[privKeyAddr]
    /\ \E i \in HeadFreshSignups :
           /\ HeadTxs[i].value = 1
           /\ statedb[HeadTxs[i].to] = HeadRewards.SignupReward

\* ------------------------------------------------------ C15: the bonus

\* min(v x 10^15 wei, 2000 x 10^18 wei) in limbs: 10^15 wei is 10 high units
MinBonus(v) == IF 10 * v <= 2000 * Ether THEN Amt(10 * v, 0) ELSE Amt(2000 * Ether, 0)

\* every value privAddress sent on the chain
SentByPrivAddress ==
    LET all == AllIncluded(chain)
    IN  SumAmts([i \in 1..Len(all) |->
            IF all[i].from = privAddress THEN Wei(all[i].value) ELSE ZeroAmt])

\* C15: a transaction with empty data and value v sent by a privileged
\* address to a fresh address is included and leaves the recipient with
\* min(v x 10^15, 2000 x 10^18) wei; the sender holds its initial balance
\* less the values it sent.
C15_BonusOfValue ==
    /\ HasParent =>
           /\ Len(HeadTxs) = 1
           /\ HeadTxs[1].from \in PrivilegedAddresses /\ HeadTxs[1].data = <<>>
           /\ parentdb[HeadTxs[1].to] = ZeroAmt
           /\ statedb[HeadTxs[1].to] = MinBonus(HeadTxs[1].value)
           /\ statedb[privAddress] = SubAmt(parentdb[privAddress], Wei(HeadTxs[1].value))
    /\ statedb[privAddress] = SubAmt(GenesisForTesting[privAddress], SentByPrivAddress)

\* one block whose transaction of 7000000 wei left 2000 Ether, after one
\* whose transaction of 300 wei left 300 x 10^15 wei
C15_Witness ==
    /\ Len(chain) = 3
    /\ chain[2].txs[1].value = 300
    /\ statedb[chain[2].txs[1].to] = Amt(3000, 0)
    /\ HeadTxs[1].value = 7000000
    /\ statedb[HeadTxs[1].to] = UR(2000)
    /\ statedb[privAddress] = SubAmt(UR(10000), Wei(7000300))

\* ------------------------------------------------- C16..C18: the tiers

\* the entries of ReductionFactors whose threshold is <= n
Reached(n) == {k \in 1..Len(ReductionFactors) : ReductionFactors[k].NSignups <= n}

\* the ratio of the first entry of the table whose threshold is <= n, Full
\* when there is none
FirstReached(hit) ==
    IF hit = {} THEN FullRatio
    ELSE ReductionFactors[CHOOSE k \in hit : \A j \in hit : k <= j].Ratio

SelectedRatio(n) == FirstReached(Reached(n))

\* a signup that credited signup to its member and urff to the future fund
\* was paid the amounts of ratio r
PaidAt(signup, urff, r) ==
    /\ signup = ScaleAmt(BaseSignupReward, r)
    /\ urff = ScaleAmt(BaseURFutureFundFee, r)

\* a signup sealed on the count before, in a block that brings the count to
\* after, was paid the amounts of the ratio that before selects
PaidTierOf(signup, urff, before, after) ==
    /\ PaidAt(signup, urff, SelectedRatio(before))
    /\ \A k \in 1..Len(ReductionFactors) :
           /\ before = ReductionFactors[k].NSignups =>
                  PaidAt(signup, urff, ReductionFactors[k].Ratio)
           /\ before < ReductionFactors[k].NSignups /\ ReductionFactors[k].NSignups <= after
                  => ~PaidAt(signup, urff, ReductionFactors[k].Ratio)

\* C16: a signup is paid the RewardSet of the signup count before it (the
\* parent block's nSignups): the ratio of the first entry of the descending
\* table whose threshold is <= that count, Full if none.  A signup sealed
\* on a count equal to a threshold is paid at that threshold's ratio; a
\* signup that brings the count up to a threshold is still paid at the
\* ratio before it.
C16_TierOfPreviousCount ==
    HasParent =>
        \A i \in HeadSignups :
            PaidTierOf(CreditedAs(credited[i], "signup"), CreditedAs(credited[i], "urff"),
                       ParentBlock.nSignups, CurrentBlock.nSignups)

\* the signup sealed on a count of 2, the threshold of Half, was paid half
\* the base amounts, and the signup before it, which brought the count from
\* 1 to 2, left its member the full SignupReward
C16_Witness ==
    /\ Len(chain) > 2
    /\ ParentBlock.nSignups = 2
    /\ chain[Len(chain) - 2].nSignups = 1
    /\ HeadSignups = {1}
    /\ CreditedAs(credited[1], "signup") = UR(1000)
    /\ Len(ParentBlock.txs) = 1
    /\ ParentBlock.txs[1].kind # NotSignup
    /\ parentdb[ParentBlock.txs[1].to] = UR(2000)

\* every amount of RewardSet x is at most that amount of RewardSet y
LeqRewards(x, y) ==
    /\ LeqAmt(x.SignupReward, y.SignupReward)
    /\ LeqAmt(x.URFutureFundFee, y.URFutureFundFee)
    /\ LeqAmt(x.ManagementFee, y.ManagementFee)
    /\ LeqAmt(x.TotalSignupRewards, y.TotalSignupRewards)
    /\ LeqAmt(x.MinerReward, y.MinerReward)
    /\ LeqAmt(x.Total, y.Total)
    /\ \A k \in 1..MaxAncestors :
           LeqAmt(x.MembersSignupRewards[k], y.MembersSignupRewards[k])

\* the ratio rb selected at a count is at most the ratio ra selected at a
\* smaller count, and so is every amount of its RewardSet
NotAbove(ra, rb) ==
    /\ RatioDivisor(ra) <= RatioDivisor(rb)
    /\ ra # rb => LeqRewards(ScaledRewards[rb], ScaledRewards[ra])

\* the ratios selected at the counts up to b
SelectedUpTo(b) == {GetFactor(a) : a \in 0..b}

\* rb, the ratio selected at count b, is not above the ratio selected at any
\* count up to b
MonotoneUpTo(b, rb) == \A ra \in SelectedUpTo(b) : NotAbove(ra, rb)

ChainRatios == {GetFactor(CurrentBlock.nSignups)}

\* amount is base x ratio r, nothing lost to truncation
ExactlyScaled(amount, base, r) == MulAmt(amount, RatioDivisor(r)) = base

\* rs, the RewardSet of ratio r, is consistent
Consistent(rs, r) ==
    /\ Len(rs.MembersSignupRewards) = 7
    /\ rs.TotalSignupRewards = SumAmts(rs.MembersSignupRewards)
    /\ rs.Total =
           AddAmt(AddAmt(rs.SignupReward, rs.TotalSignupRewards),
                  AddAmt(rs.URFutureFundFee, rs.MinerReward))
    /\ ExactlyScaled(rs.SignupReward, BaseSignupReward, r)
    /\ ExactlyScaled(rs.URFutureFundFee, BaseURFutureFundFee, r)
    /\ ExactlyScaled(rs.ManagementFee, BaseManagementFee, r)
    /\ \A k \in 1..7 :
           ExactlyScaled(rs.MembersSignupRewards[k], BaseMembersSignupRewards[k], r)
    /\ rs.MinerReward = BlockReward
    /\ r = FullRatio => SubAmt(rs.Total, rs.MinerReward) = UR(9000)

LastPayload(data, walk) == IF walk = <<>> THEN data ELSE walk[Len(walk)].data

\* the walk of a payload ended before depth 7 at a pointer that resolves to
\* no transaction
EndsAtUnresolved(data, walk) ==
    /\ Len(walk) < MaxAncestors
    /\ Len(LastPayload(data, walk)) = 41
    /\ Referenced(ParentChain, LastPayload(data, walk)) = <<>>

\* the member signups of the head block whose walk ended before depth 7 at
\* a pointer that resolves to no transaction
HeadUnresolved ==
    {i \in HeadMemberSignups :
        EndsAtUnresolved(HeadTxs[i].data,
                         ReferralWalk(ParentChain, HeadTxs[i].data, MaxAncestors))}

\* signup tx, the i-th of the head block, paid the member, the ancestors of
\* its walk, and the receiver the tiers of the slots the walk left
PaidResolved(i, tx, walk, rewards) ==
    /\ tx.kind = MemberSignup
    /\ HeadCreditsAs(i, "signup") =
           << Credit(tx.to, rewards.SignupReward, "signup") >>
    /\ HeadCreditsAs(i, "ancestor") =
           [k \in 1..Len(walk) |->
               Credit(walk[k].to, rewards.MembersSignupRewards[k], "ancestor")]
    /\ HeadCreditsAs(i, "remainder") =
           << Credit(ReceiverAddr,
                     SumAmts([k \in 1..(MaxAncestors - Len(walk)) |->
                         rewards.MembersSignupRewards[Len(walk) + k]]),
                     "remainder") >>

\* if the walk of signup tx ended at an unresolved pointer, the signup was
\* counted and paid what the walk resolved
UnresolvedPaid(i, tx, walk, rewards, counted) ==
    EndsAtUnresolved(tx.data, walk) => counted /\ PaidResolved(i, tx, walk, rewards)

\* the signups among is whose walk ended at an unresolved pointer were
\* counted with the block's other signups and paid what the walk resolved
UnresolvedApplied(is, ch, rewards, counted) ==
    \A i \in is :
        UnresolvedPaid(i, HeadTxs[i], ReferralWalk(ch, HeadTxs[i].data, MaxAncestors),
                       rewards, counted)

HeadReplay == SealBlock(ParentChain, parentdb, CurrentBlock.coinbase, HeadTxs)

\* replaying the head block gives its counters, its credits and the
\* balances after it again
ReplayReproduces ==
    HasParent =>
        /\ HeadReplay.block.nSignups = CurrentBlock.nSignups
        /\ HeadReplay.block.totalWei = CurrentBlock.totalWei
        /\ HeadReplay.block = CurrentBlock
        /\ HeadReplay.credits = credited
        /\ \A a \in Addresses :
               SubAmt(HeadReplay.state[a], parentdb[a]) = SubAmt(statedb[a], parentdb[a])

\* the step hands InsertChain a block for the head of the chain
Importing == blocks' # <<>> /\ blocks'[1].number = Len(chain)

\* the chain and its state after the step are those before it
Rejected ==
    /\ chain' = chain
    /\ statedb' = statedb
    /\ parentdb' = parentdb
    /\ credited' = credited
    /\ nodes' = nodes

\* the verdict of the step on the block it imports: the block is rejected
\* exactly when a counter it declares differs from the replayed one, and a
\* block that is its own replay is inserted
ImportVerdict(block, replayed) ==
    /\ Rejected <=>
           \/ block.nSignups # replayed.block.nSignups
           \/ block.totalWei # replayed.block.totalWei
    /\ ~Rejected =>
           /\ chain' = Append(chain, replayed.block)
           /\ statedb' = replayed.state
           /\ parentdb' = statedb
    /\ block = replayed.block => ~Rejected

BalancesBefore(i) ==
    AllCredited(ValuesMoved(parentdb, SubSeq(HeadTxs, 1, i - 1), FALSE),
                SubSeq(credited, 1, i - 1))

\* the sender of tx holds its value in the balances st
CanTransfer(st, tx) == LeqAmt(Wei(tx.value), st[tx.from])

\* what the head block's transactions credited, summed
HeadCreditedWei == SumAmts([i \in 1..Len(credited) |-> HeadCreditSum(i)])

\* a transaction the sealing of the head block refused left nothing in it
LeftOut(tx) == \A i \in 1..Len(HeadTxs) : HeadTxs[i].hash # tx.hash

\* C21: the reward cascade is all-or-nothing.  A transaction whose sender
\* cannot pay its value is refused whole: it is not in the block and
\* nothing is credited for it, so every transaction that credited rewards
\* had a sender holding its value; the running counters of the block and
\* the balances after it are those of the transactions in it, each with
\* its whole list of credits, and of nothing else; a block whose only
\* transaction was refused leaves nSignups as it was and adds BlockReward
\* alone to totalWei and to the coinbase.
C21_AllOrNothing ==
    HasParent =>
        /\ \A k \in 1..Len(dropped) : LeftOut(dropped[k])
        /\ Len(credited) = Len(HeadTxs)
        /\ \A i \in 1..Len(HeadTxs) :
               /\ CanTransfer(BalancesBefore(i), HeadTxs[i])
               /\ IF HeadTxs[i].kind = NotSignup THEN credited[i] = <<>>
                  ELSE HeadCreditSum(i) = AddAmt(HeadRewards.Total, HeadFee)
        /\ CurrentBlock.nSignups = ParentBlock.nSignups + Cardinality(HeadSignups)
        /\ CurrentBlock.totalWei =
               AddAmt(AddAmt(ParentBlock.totalWei, HeadCreditedWei), BlockReward)
        /\ statedb = HeadCredited(ValuesMoved(parentdb, HeadTxs, FALSE))
        /\ \A a \in Addresses : LeqAmt(ZeroAmt, statedb[a])
        /\ dropped # <<>> /\ HeadTxs = <<>> =>
               /\ CurrentBlock.nSignups = ParentBlock.nSignups
               /\ CurrentBlock.totalWei = AddAmt(ParentBlock.totalWei, BlockReward)
               /\ statedb = AddBalance(parentdb, CurrentBlock.coinbase, BlockReward)

\* signMember's signup of a new address by the privileged key, which had
\* spent its single wei, was refused: the block sealed is empty, the new
\* address holds nothing, and the counters moved by the block reward alone
C21_Witness ==
    /\ HasParent
    /\ Len(dropped) = 1
    /\ dropped[1].from = privKeyAddr
    /\ dropped[1].value = 1
    /\ Len(dropped[1].data) \in {1, 41}
    /\ dropped[1].data[1] = 1
    /\ parentdb[privKeyAddr] = ZeroAmt
    /\ HeadTxs = <<>>
    /\ statedb[dropped[1].to] = ZeroAmt
    /\ CurrentBlock.nSignups = ParentBlock.nSignups
    /\ CurrentBlock.nSignups > 0

\* ------------------------------------------- C22: the running counters

\* the block in progress when the sealing of the head block starts
HeadStart ==
    [state |-> parentdb, txs |-> <<>>, credits |-> <<>>, failed |-> <<>>,
     signups |-> 0, wei |-> ZeroAmt]

\* the block in progress after the first i transactions of the head block
Running(i) ==
    ApplyTransactions(ParentChain, CurrentBlock.coinbase, HeadStart, SubSeq(HeadTxs, 1, i))

\* the running counters after the transactions of the head block are the
\* ones its header was sealed with, the block reward added
SealedFromRunning ==
    LET w == Running(Len(HeadTxs))
    IN  /\ CurrentBlock.nSignups = ParentBlock.nSignups + w.signups
        /\ CurrentBlock.totalWei = AddAmt(AddAmt(ParentBlock.totalWei, w.wei), BlockReward)

\* C22 as claimed: one signup increments the running signup counter by 1
\* and the running wei counter by rewards.Total + (ManagementFee if
\* credited) + BlockReward.
C22_Original ==
    HasParent =>
        \A i \in HeadSignups :
            /\ Running(i).signups = Running(i - 1).signups + 1
            /\ Running(i).wei = AddAmt(Running(i - 1).wei,
                                       AddAmt(AddAmt(HeadRewards.Total, HeadFee), BlockReward))

\* C22: applying one signup increments the in-block running signup counter
\* by exactly 1 and the running wei counter by exactly rewards.Total +
\* (ManagementFee if credited); the miner's per-signup BlockReward is the
\* MinerReward inside Total, and the header is sealed with these counters
\* and the block's own BlockReward on top of the parent's.
C22_RunningCounters ==
    HasParent =>
        /\ \A i \in HeadSignups :
               /\ Running(i).signups = Running(i - 1).signups + 1
               /\ Running(i).wei = AddAmt(Running(i - 1).wei,
                                          AddAmt(HeadRewards.Total, HeadFee))
        /\ SealedFromRunning

\* the second signup of a block has advanced both running counters, with
\* the management fee due
C22_Witness ==
    /\ HasParent
    /\ HeadSignups = {1, 2}
    /\ HeadFee # ZeroAmt
    /\ Running(1).signups = 1
    /\ Running(2).signups = 2
    /\ Running(2).wei = MulAmt(AddAmt(HeadRewards.Total, HeadFee), 2)

\* ------------------------------------------- C23: totalWei along the chain

\* the signups of block number n - 1 of the chain (chain[n])
SignupsOf(n) == {i \in 1..Len(chain[n].txs) : chain[n].txs[i].kind # NotSignup}

\* the RewardSet.Total of the signups of chain[n], at the tier of its parent
TotalsOf(n) ==
    MulAmt(ScaledRewards[GetFactor(chain[n - 1].nSignups)].Total, Cardinality(SignupsOf(n)))

\* the management fees of the signups of chain[n], due or not on the
\* counters of its parent
FeesOf(n) ==
    MulAmt(CalculateTxManagementFee(chain[n - 1].nSignups, chain[n - 1].totalWei),
           Cardinality(SignupsOf(n)))

\* C23 as claimed: for every block B with parent P, B.totalWei =
\* P.totalWei + the RewardSet.Total of every signup of B + BlockReward.
C23_Original ==
    \A n \in 2..Len(chain) :
        chain[n].totalWei =
            AddAmt(AddAmt(chain[n - 1].totalWei, TotalsOf(n)), BlockReward)

\* C23: for every block B with parent P, B.totalWei = P.totalWei + the
\* RewardSet.Total of every signup of B + the management fees credited to
\* the signups of B + BlockReward.
C23_TotalWeiOfEveryBlock ==
    \A n \in 2..Len(chain) :
        chain[n].totalWei =
            AddAmt(AddAmt(chain[n - 1].totalWei, AddAmt(TotalsOf(n), FeesOf(n))),
                   BlockReward)

\* a chain with a block of two signups that were paid the fee and a later
\* block whose signup was not
C23_Witness ==
    \E n \in 2..Len(chain) :
        /\ Cardinality(SignupsOf(n)) = 2
        /\ FeesOf(n) # ZeroAmt
        /\ \E m \in (n + 1)..Len(chain) : SignupsOf(m) # {} /\ FeesOf(m) = ZeroAmt

\* ------------------------------------------- C24: the first ancestor

\* the head block's signups with a 41-byte payload that paid an ancestor
HeadPaidAncestors == {i \in HeadMemberSignups : HeadCreditsAs(i, "ancestor") # <<>>}

\* the recipient of the transaction the payload of the head block's i-th
\* transaction points at
HeadReferrer(i) == Referenced(ParentChain, HeadTxs[i].data)[1].to

\* C24 as claimed: in every credited member signup the first ancestor is
\* the transaction's sender, the payload pointing at the sender's own
\* signup transaction.
C24_Original ==
    HasParent =>
        \A i \in HeadPaidAncestors :
            /\ HeadCreditsAs(i, "ancestor")[1].to = HeadTxs[i].from
            /\ HeadReferrer(i) = HeadTxs[i].from

\* C24: in every credited member signup the first ancestor is the recipient
\* of the signup transaction the payload points at, whoever sent the
\* signup: the sender is paid as an ancestor only when the pointer leads to
\* its own signup, and the privileged key, which sends the referral signups
\* and has no signup of its own, is paid none.
C24_FirstAncestorIsReferrer ==
    HasParent =>
        \A i \in HeadPaidAncestors :
            /\ Referenced(ParentChain, HeadTxs[i].data) # <<>>
            /\ HeadCreditsAs(i, "ancestor")[1].to = HeadReferrer(i)
            /\ HeadReferrer(i) \in Members(ParentChain)
            /\ HeadTxs[i].from \notin Members(ParentChain) =>
                   CreditedTo(HeadCreditsAs(i, "ancestor"), HeadTxs[i].from) = ZeroAmt

\* a signup sent by the privileged key whose first ancestor is the member
\* its payload names, not its sender
C24_Witness ==
    /\ HasParent
    /\ HeadPaidAncestors = {1}
    /\ HeadTxs[1].from = privKeyAddr
    /\ HeadCreditsAs(1, "ancestor")[1].to = HeadReferrer(1)
    /\ HeadReferrer(1) # HeadTxs[1].from
    /\ statedb[HeadReferrer(1)] = AddAmt(parentdb[HeadReferrer(1)],
                                         HeadRewards.MembersSignupRewards[1])

\* ------------------------------------------- C25: the root's receivers

\* the privileged sender at the root of the referral chain of the head
\* block's i-th transaction: the sender of the last transaction its
\* pointers lead to, the sender itself when they lead nowhere
HeadRoot(i) ==
    LET walk == ReferralWalk(ParentChain, HeadTxs[i].data, Len(ParentChain))
    IN  IF walk = <<>> THEN HeadTxs[i].from ELSE walk[Len(walk)].from

\* the credits cs pay the future fund's grant to entry.URFF, the fee when
\* due and what the ancestors left of TotalSignupRewards to entry.Receiver
ReceiversPaid(cs, entry, rewards, fee) ==
    /\ SelectSeq(cs, LAMBDA c : c.role = "urff") =
           << Credit(entry.URFF, rewards.URFutureFundFee, "urff") >>
    /\ SelectSeq(cs, LAMBDA c : c.role = "fee") =
           (IF fee = ZeroAmt THEN <<>> ELSE << Credit(entry.Receiver, fee, "fee") >>)
    /\ SelectSeq(cs, LAMBDA c : c.role = "remainder") =
           << Credit(entry.Receiver,
                     SubAmt(rewards.TotalSignupRewards, CreditedAs(cs, "ancestor")),
                     "remainder") >>

PaidFrom(cs, rewards, fee) ==
    /\ CreditedAs(cs, "signup") = rewards.SignupReward
    /\ CreditedAs(cs, "urff") = rewards.URFutureFundFee
    /\ CreditedAs(cs, "miner") = rewards.MinerReward
    /\ AddAmt(CreditedAs(cs, "ancestor"), CreditedAs(cs, "remainder")) =
           rewards.TotalSignupRewards
    /\ CreditedAs(cs, "fee") = fee

HeadRepeatSignups ==
    {i \in HeadPrivilegedSignups :
        HeadTxs[i].to \in Members(ParentChain) \cup {CurrentBlock.coinbase}}

\* what the transfers of the head block moved to address a, net
HeadValues(a) ==
    SumAmts([i \in 1..Len(HeadTxs) |->
        IF HeadTxs[i].kind # NotSignup THEN ZeroAmt
        ELSE SubAmt(If(HeadTxs[i].to = a, Wei(HeadTxs[i].value)),
                    If(HeadTxs[i].from = a, Wei(HeadTxs[i].value)))])

\* C27: a privileged signup to an address that has signed up already, or
\* to the coinbase of the block, is a signup again: it is counted in
\* nSignups, it is paid the whole cascade of the tier (SignupReward to
\* the recipient once more), and the recipient's balance grows by all the
\* credits of the block that land on it.
C27_SignupAgain ==
    HasParent =>
        /\ \A i \in HeadRepeatSignups :
               /\ HeadTxs[i].kind = PrivilegedSignup
               /\ HeadCreditsAs(i, "signup") =
                      << Credit(HeadTxs[i].to, HeadRewards.SignupReward, "signup") >>
               /\ HeadCreditSum(i) = AddAmt(HeadRewards.Total, HeadFee)
               /\ HeadDelta(HeadTxs[i].to) =
                      AddAmt(HeadCredits(HeadTxs[i].to), HeadValues(HeadTxs[i].to))
        /\ HeadRepeatSignups # {} =>
               CurrentBlock.nSignups = ParentBlock.nSignups + Cardinality(HeadSignups)

\* a member that held the rewards of its first signup is signed up by the
\* privileged key once more and holds one SignupReward more
C27_Witness ==
    /\ HasParent
    /\ HeadRepeatSignups = {1}
    /\ HeadTxs[1].to \in Members(ParentChain)
    /\ HeadTxs[1].to # CurrentBlock.coinbase
    /\ LeqAmt(ScaledRewards[QuarterRatio].SignupReward, parentdb[HeadTxs[1].to])
    /\ statedb[HeadTxs[1].to] = AddAmt(parentdb[HeadTxs[1].to], HeadRewards.SignupReward)
    /\ CurrentBlock.nSignups = ParentBlock.nSignups + 1

\* ------------------------------------------- C28: the supply

\* the sum of the balances of every account
SumBalances(st) == SumAmts([k \in 1..(privAddress + 1) |-> st[k - 1]])

\* the wei a transaction made on its way: a qualifying transfer debits
\* its value and credits the bonus in its place
Minted(tx) ==
    IF tx.kind = NotSignup /\ Qualifying(tx) THEN SubAmt(Bonus(tx.value), Wei(tx.value))
    ELSE ZeroAmt

\* the wei the transfers of the blocks txs made
MintedBy(txs) == SumAmts([i \in 1..Len(txs) |-> Minted(txs[i])])

\* over the head block the balances grow by what totalWei grows and by the
\* wei its qualifying transfers made
SupplyStep ==
    HasParent =>
        SubAmt(SumBalances(statedb), SumBalances(parentdb)) =
            AddAmt(SubAmt(CurrentBlock.totalWei, ParentBlock.totalWei), MintedBy(HeadTxs))

\* no balance is negative
NoneNegative == \A a \in Addresses : LeqAmt(ZeroAmt, statedb[a])

====
